---- MODULE Spec2Model ----
(***************************************************************************)
(* Model of marklogic/connection.py: the Connection class, its five        *)
(* dispatch operations (head, get, post, put, delete), the response        *)
(* classifier _response and the restart reconciler wait_for_restart.       *)
(*                                                                         *)
(* Every caller is a thread of control running one dispatch operation at   *)
(* a time on the one shared Connection.  Spec has a single caller (the     *)
(* sequential use of the class), SpecConc has two callers interleaving     *)
(* at the granularity of the statements that touch self.response.          *)
(***************************************************************************)
EXTENDS Integers, Sequences, FiniteSets, TLC

\* ------------------------------------------------------------------ bounds
\* dispatch operations one caller issues in a behaviour
MaxCalls == 2

\* longest parameters list handed to uri()
MaxParams == 2

\* --------------------------------------------------------------- constants
\* count = 24 in wait_for_restart
RetryBudget == 24

\* time.sleep(4)
SleepUnits == 4
AllCallers == {"a", "b"}

Timestamps == {"T0", "T1"}

\* ------------------------------------------------------------------ state
VARIABLES
  callers,        \* the callers that use the Connection in this behaviour
  conn,           \* the attributes __init__ sets: host, protocol, ports, root, version
  built,          \* the latest uri() call: its arguments and the string it returned
  args,           \* per caller: the arguments of the verb, until _response takes over
  target,         \* per caller: the uri argument of the verb
  elapsed,        \* per caller: time units slept by the current call
  self_response,  \* Connection.response, the attribute every verb assigns
  wire,           \* the last request put on the network
  pc,             \* per caller: position in its dispatch operation
  calls,          \* per caller: dispatch operations started so far
  own,            \* per caller: what requests.<verb>() answered to its request
  sends,          \* per caller: times the current request went to its target
  response,       \* per caller: local `response` of _response
  parsed,         \* per caller: json.loads ran on the body
  last_startup,   \* per caller: argument of wait_for_restart
  count,          \* per caller: local `count` of wait_for_restart
  done,           \* per caller: local `done` of wait_for_restart
  wait_response,  \* per caller: local `response` of wait_for_restart
  attempt,        \* per caller: outcome of the latest liveness poll
  polls,          \* per caller: liveness polls issued by the current call
  sleeps,         \* per caller: time.sleep(4) calls of the current call
  firstConfirm,   \* per caller: index of the first poll answering 200 with a new timestamp
  outcome         \* per caller: what the current call gave back to its caller

vars == <<callers, conn, built, args, target, elapsed, self_response, wire, pc, calls, own, sends, response,
          parsed, last_startup, count, done, wait_response, attempt, polls,
          sleeps, firstConfirm, outcome>>

Concurrent == Cardinality(callers) > 1

\* -------------------------------------------------------------- data shapes
Body(k, v) == [kind |-> k, value |-> v]

\* response.text of a management response:
\*   notjson    text json.loads rejects
\*   norestart  a JSON object without the "restart" key
\*   malformed  a JSON object whose "restart" lacks last-startup[0].value
\*   restart    a JSON object with restart/last-startup[0]/value = value
Bodies ==
  {Body("notjson", "-"), Body("norestart", "-"), Body("malformed", "-")}
    \cup {Body("restart", t) : t \in Timestamps}

Handle(s, b) == [status |-> s, text |-> b]

NoResponse == Handle(0, Body("none", "-"))

StatusCodes == {100, 200, 201, 202, 204, 299, 300, 304, 400, 401, 402, 403, 404, 405, 500}

\* what the server may answer to a dispatched request
ManagementResponses ==
  IF Concurrent
    THEN {Handle(200, Body("norestart", "-")), Handle(401, Body("notjson", "-")),
          Handle(202, Body("restart", "T0"))}
    ELSE {Handle(s, b) : s \in StatusCodes, b \in Bodies}

\* exceptions requests.<verb>() may raise instead of answering
TransportErrors == {"ConnectionError"}

PollStatuses == {200, 401, 404, 500}

\* what GET /admin/v1/timestamp may answer
PollResponses ==
  IF Concurrent
    THEN {Handle(200, t) : t \in Timestamps}
    ELSE {Handle(s, t) : s \in PollStatuses, t \in Timestamps}

\* the local `response` of wait_for_restart before its first assignment
Unbound == Handle(0, "-")

\* exceptions requests.get() may raise inside the polling loop
PollErrors ==
  IF Concurrent
    THEN {"ConnectionError"}
    ELSE {"TypeError", "BadStatusLine", "ProtocolError", "ConnectionError", "Timeout"}

Answered(r) == [kind |-> "response", error |-> "-", response |-> r]
Failed(e) == [kind |-> "error", error |-> e, response |-> Unbound]
NoAttempt == [kind |-> "none", error |-> "-", response |-> Unbound]

NoOutcome == [kind |-> "none", handle |-> NoResponse, error |-> "-", text |-> Body("none", "-")]
Returned(r) == [kind |-> "returned", handle |-> r, error |-> "-", text |-> Body("none", "-")]
Raised(e, t) == [kind |-> "raised", handle |-> NoResponse, error |-> e, text |-> t]

\* an optional argument: None, or a value
None == <<>>
Some(x) == <<x>>

\* Connection(host, auth) with the defaults of __init__
DefaultConnection ==
  [host |-> "localhost", protocol |-> "http", port |-> 8000,
   management_port |-> 8002, root |-> "manage", version |-> "v2"]

\* a Connection constructed with every keyword given
OtherConnection ==
  [host |-> "db.example", protocol |-> "https", port |-> 8010,
   management_port |-> 9002, root |-> "admin", version |-> "v3"]

Connections == {DefaultConnection, OtherConnection}

\* the arguments of one uri() call
UriArgs(relation, name, protocol, host, port, root, version, properties, parameters) ==
  [relation |-> relation, name |-> name, protocol |-> protocol, host |-> host,
   port |-> port, root |-> root, version |-> version, properties |-> properties,
   parameters |-> parameters]

\* uri(relation): every keyword at its default
Defaults(relation) ==
  UriArgs(relation, None, None, None, None, None, None, Some("/properties"), None)

\* "&".join(parameters), as the pieces of the joined string
RECURSIVE Join(_)
Join(ps) ==
  IF Len(ps) = 0 THEN <<>>
  ELSE IF Len(ps) = 1 THEN <<ps[1]>>
  ELSE <<ps[1], "&">> \o Join(Tail(ps))

\* `if x is None: x = self.x`
OrElse(override, stored) == IF override = None THEN stored ELSE override[1]

\* the fallback taken from self.port
StoredPortApp(k) == k.port

\* `if port is None: port = self.management_port`
StoredPort(k) == k.management_port

\* the suffix appended whether or not a name is given
NamePartAlwaysSuffix(name, properties) ==
  (IF name = None THEN <<>> ELSE <<"/", name[1]>>)
    \o (IF properties # None THEN <<properties[1]>> ELSE <<>>)

\* name = "" / name = "/" + name / name = name + properties
NamePart(name, properties) ==
  IF name = None THEN <<>>
  ELSE IF properties # None THEN <<"/", name[1], properties[1]>>
  ELSE <<"/", name[1]>>

\* uri = uri + "?" + "&".join(parameters)
QueryPart(parameters) ==
  IF parameters = None THEN <<>> ELSE <<"?">> \o Join(parameters[1])

\* Connection.uri: the returned string as the sequence of its pieces
Uri(k, a) ==
  <<OrElse(a.protocol, k.protocol), "://", OrElse(a.host, k.host), ":",
    ToString(OrElse(a.port, StoredPort(k))), "/", OrElse(a.root, k.root), "/",
    OrElse(a.version, k.version), "/", a.relation>>
    \o NamePart(a.name, a.properties) \o QueryPart(a.parameters)

\* the timestamp URI built on the management port
TimestampUriManagementPort(k, timestamp_uri) ==
  <<k.protocol, "://", k.host, ":" \o ToString(k.management_port), timestamp_uri>>

\* "{0}://{1}:8001{2}".format(self.protocol, self.host, timestamp_uri)
TimestampUri(k, timestamp_uri) == <<k.protocol, "://", k.host, ":8001", timestamp_uri>>

\* the URIs callers hand to the verbs: one built with the defaults, one
\* built with scheme, host and port overridden
TargetUris(k) ==
  IF Concurrent
    THEN {Uri(k, Defaults("databases"))}
    ELSE {Uri(k, Defaults("databases")),
          Uri(k, UriArgs("hosts", Some("h1"), Some("https"), Some("elsewhere"),
                         Some(8003), None, None, Some("/properties"), None))}

ContentTypes ==
  IF Concurrent THEN {"application/json"} ELSE {"application/json", "application/xml"}

Payloads == IF Concurrent THEN {None} ELSE {None, Some("payload")}

Etags == IF Concurrent THEN {None} ELSE {None, Some("etag")}

\* a request as requests.<verb>(uri, headers=..., json=..., data=...) gets it
Wire(verb, to, headers, json, data) ==
  [verb |-> verb, to |-> to, headers |-> headers, json |-> json, data |-> data]

Idle == Wire("-", <<>>, {}, None, None)

\* payload, etag, content_type and accept of one verb call
Args(payload, etag, content_type, accept) ==
  [payload |-> payload, etag |-> etag, content_type |-> content_type, accept |-> accept]

NoArgs == Args(None, None, "-", "-")

NoUri == [args |-> Defaults("-"), uri |-> <<>>]

\* headers = {'content-type': ..., 'accept': ...}; headers['if-match'] = etag
Headers(a) ==
  {<<"content-type", a.content_type>>, <<"accept", a.accept>>}
    \cup (IF a.etag # None THEN {<<"if-match", a.etag[1]>>} ELSE {})

\* ------------------------------------------------------------ pure helpers
\* the policy with 401 falling into the general error branch
ClassifyNo401(r) ==
  IF r.status < 300 THEN "pass"
  ELSE IF r.status = 404 THEN "pass"
  ELSE "UnexpectedManagementAPIResponse"

\* the policy without the 404 branch
ClassifyNo404(r) ==
  IF r.status < 300 THEN "pass"
  ELSE IF r.status = 401 THEN "UnauthorizedAPIRequest"
  ELSE "UnexpectedManagementAPIResponse"

\* the policy with == 200 in place of < 300
ClassifyOnly200(r) ==
  IF r.status = 200 THEN "pass"
  ELSE IF r.status = 404 THEN "pass"
  ELSE IF r.status = 401 THEN "UnauthorizedAPIRequest"
  ELSE "UnexpectedManagementAPIResponse"

\* _response, the status-code policy
Classify(r) ==
  IF r.status < 300 THEN "pass"
  ELSE IF r.status = 404 THEN "pass"
  ELSE IF r.status = 401 THEN "UnauthorizedAPIRequest"
  ELSE "UnexpectedManagementAPIResponse"

\* json.loads(response.text) succeeds
Loads(text) == text.kind \in {"norestart", "malformed", "restart"}

\* the membership test dropped: every parsed body is indexed
HasRestartAlways(text) == TRUE

\* "restart" in data
HasRestart(text) == text.kind \in {"malformed", "restart"}

\* data["restart"]["last-startup"][0]["value"] can be read
HasLastStartup(text) == text.kind = "restart"

\* done without the status test
ConfirmsAnyStatus(r, last) == r.text # last

\* done without the timestamp comparison
ConfirmsAnyText(r, last) == r.status = 200

\* done = response.status_code == 200 and response.text != last_startup
Confirms(r, last) == r.status = 200 /\ r.text # last

\* the budget test with < in place of <=
ExhaustedLate(n) == n < 0

\* if count <= 0: raise
Exhausted(n) == n <= 0

\* the handlers that format response.status_code and response.text
HandlerReadsResponse(e) == e \in {"TypeError", "BadStatusLine", "ProtocolError"}

\* a bare except in the polling loop
HandledAll(e) == TRUE

\* the except clauses of the polling loop
Handled(e) == e \in {"TypeError", "BadStatusLine", "ProtocolError", "ConnectionError"}

\* --------------------------------------------------------------- initial
InitWith(cs, k) ==
  /\ callers = cs
  /\ conn = k
  /\ built = NoUri
  /\ args = [c \in AllCallers |-> NoArgs]
  /\ target = [c \in AllCallers |-> <<>>]
  /\ elapsed = [c \in AllCallers |-> 0]
  /\ self_response = NoResponse
  /\ wire = Idle
  /\ pc = [c \in AllCallers |-> "idle"]
  /\ calls = [c \in AllCallers |-> 0]
  /\ own = [c \in AllCallers |-> NoResponse]
  /\ sends = [c \in AllCallers |-> 0]
  /\ response = [c \in AllCallers |-> NoResponse]
  /\ parsed = [c \in AllCallers |-> FALSE]
  /\ last_startup = [c \in AllCallers |-> "-"]
  /\ count = [c \in AllCallers |-> 0]
  /\ done = [c \in AllCallers |-> FALSE]
  /\ wait_response = [c \in AllCallers |-> Unbound]
  /\ attempt = [c \in AllCallers |-> NoAttempt]
  /\ polls = [c \in AllCallers |-> 0]
  /\ sleeps = [c \in AllCallers |-> 0]
  /\ firstConfirm = [c \in AllCallers |-> 0]
  /\ outcome = [c \in AllCallers |-> NoOutcome]

Init == \E k \in Connections : InitWith({"a"}, k)

InitConc == InitWith(AllCallers, DefaultConnection)

\* --------------------------------------------------------------- dispatch
CanCall(c) ==
  /\ c \in callers
  /\ pc[c] = "idle"
  /\ calls[c] < MaxCalls

\* a new stack frame: the locals of the previous call are gone
Enter(c) ==
  /\ calls' = [calls EXCEPT ![c] = @ + 1]
  /\ response' = [response EXCEPT ![c] = NoResponse]
  /\ parsed' = [parsed EXCEPT ![c] = FALSE]
  /\ last_startup' = [last_startup EXCEPT ![c] = "-"]
  /\ count' = [count EXCEPT ![c] = 0]
  /\ done' = [done EXCEPT ![c] = FALSE]
  /\ wait_response' = [wait_response EXCEPT ![c] = Unbound]
  /\ attempt' = [attempt EXCEPT ![c] = NoAttempt]
  /\ polls' = [polls EXCEPT ![c] = 0]
  /\ sleeps' = [sleeps EXCEPT ![c] = 0]
  /\ firstConfirm' = [firstConfirm EXCEPT ![c] = 0]
  /\ elapsed' = [elapsed EXCEPT ![c] = 0]

\* the verb builds its headers and calls requests.<verb>(uri, ...): the
\* request goes out on the network
Request(c, w, a) ==
  /\ CanCall(c)
  /\ Enter(c)
  /\ wire' = w
  /\ args' = [args EXCEPT ![c] = a]
  /\ target' = [target EXCEPT ![c] = w.to]
  /\ sends' = [sends EXCEPT ![c] = 1]
  /\ own' = [own EXCEPT ![c] = NoResponse]
  /\ pc' = [pc EXCEPT ![c] = "requested"]
  /\ outcome' = [outcome EXCEPT ![c] = NoOutcome]
  /\ UNCHANGED <<callers, conn, built, self_response>>

\* what the verb's frame leaves alone while requests.<verb>() completes
RequestFrame ==
  UNCHANGED <<callers, conn, built, args, target, elapsed, wire, calls, response,
              parsed, last_startup, count, done, wait_response, attempt, polls,
              sleeps, firstConfirm>>

\* self.response = requests.<verb>(...): the call answered and the shared
\* attribute is assigned
requests_answered(c) ==
  /\ c \in callers
  /\ pc[c] = "requested"
  /\ \E r \in ManagementResponses :
       /\ own' = [own EXCEPT ![c] = r]
       /\ self_response' = r
  /\ pc' = [pc EXCEPT ![c] = "sent"]
  /\ UNCHANGED <<sends, outcome>>
  /\ RequestFrame

\* a verb whose requests call is tried again after a transport error
requests_raised_retried(c) ==
  /\ c \in callers
  /\ pc[c] = "requested"
  /\ sends[c] < 2
  /\ \E e \in TransportErrors : sends' = [sends EXCEPT ![c] = @ + 1]
  /\ UNCHANGED <<own, self_response, pc, outcome>>
  /\ RequestFrame

\* requests.<verb>(...) raised: no try surrounds it, the exception leaves
\* the verb before self.response is assigned
requests_raised(c) ==
  /\ c \in callers
  /\ pc[c] = "requested"
  /\ \E e \in TransportErrors :
       outcome' = [outcome EXCEPT ![c] = Raised(e, Body("none", "-"))]
  /\ pc' = [pc EXCEPT ![c] = "raised"]
  /\ UNCHANGED <<own, self_response, sends>>
  /\ RequestFrame

\* requests.head(uri, auth=self.auth): the accept argument is not used
head(c) ==
  \E u \in TargetUris(conn) :
    Request(c, Wire("HEAD", u, {}, None, None), Args(None, None, "-", "application/json"))

\* requests.get(uri, auth=self.auth, headers={'accept': accept})
get(c) ==
  \E u \in TargetUris(conn), accept \in ContentTypes :
    Request(c, Wire("GET", u, {<<"accept", accept>>}, None, None),
            Args(None, None, "-", accept))

\* post: json=payload for application/json, data=payload otherwise
post(c) ==
  \E u \in TargetUris(conn), payload \in Payloads, etag \in Etags,
     content_type \in ContentTypes :
    LET a == Args(payload, etag, content_type, "application/json")
    IN Request(c,
         IF payload = None THEN Wire("POST", u, Headers(a), None, None)
         ELSE IF content_type = "application/json"
           THEN Wire("POST", u, Headers(a), payload, None)
           ELSE Wire("POST", u, Headers(a), None, payload),
         a)

\* put: json=payload whenever a payload is given
put(c) ==
  \E u \in TargetUris(conn), payload \in Payloads, etag \in Etags,
     content_type \in ContentTypes :
    LET a == Args(payload, etag, content_type, "application/json")
    IN Request(c, Wire("PUT", u, Headers(a), payload, None), a)

\* delete: json=payload whenever a payload is given
delete(c) ==
  \E u \in TargetUris(conn), payload \in Payloads, etag \in Etags,
     content_type \in ContentTypes :
    LET a == Args(payload, etag, content_type, "application/json")
    IN Request(c, Wire("DELETE", u, Headers(a), payload, None), a)

\* ------------------------------------------------------------- _response
\* what _response does with the response it read from self.response
Verdict(r) ==
  IF Classify(r) # "pass" THEN Raised(Classify(r), r.text)
  ELSE IF r.status # 202 THEN Returned(r)
  ELSE IF ~Loads(r.text) THEN Raised("ValueError", Body("none", "-"))
  ELSE IF ~HasRestart(r.text) THEN Returned(r)
  ELSE IF ~HasLastStartup(r.text) THEN Raised("KeyError", Body("none", "-"))
  ELSE [kind |-> "wait", handle |-> NoResponse, error |-> "-", text |-> Body("none", "-")]

_response(c) ==
  /\ c \in callers
  /\ pc[c] = "sent"
  /\ LET r == self_response
         v == Verdict(r)
     IN /\ response' = [response EXCEPT ![c] = r]
        /\ args' = [args EXCEPT ![c] = NoArgs]
        /\ parsed' = [parsed EXCEPT ![c] = (Classify(r) = "pass" /\ r.status = 202)]
        /\ IF v.kind = "wait"
             THEN /\ pc' = [pc EXCEPT ![c] = "poll"]
                  /\ last_startup' = [last_startup EXCEPT ![c] = r.text.value]
                  /\ count' = [count EXCEPT ![c] = RetryBudget]
                  /\ done' = [done EXCEPT ![c] = FALSE]
                  /\ UNCHANGED outcome
             ELSE /\ pc' = [pc EXCEPT ![c] = v.kind]
                  /\ outcome' = [outcome EXCEPT ![c] = v]
                  /\ UNCHANGED <<last_startup, count, done>>
  /\ UNCHANGED <<callers, conn, built, target, elapsed, self_response, wire, calls, own, sends, wait_response,
                 attempt, polls, sleeps, firstConfirm>>

\* ------------------------------------------------------- wait_for_restart
\* the try block of one loop iteration: one GET of the timestamp URI
Polled(c) ==
  /\ c \in callers
  /\ pc[c] = "poll"
  /\ polls' = [polls EXCEPT ![c] = @ + 1]
  /\ wire' = Wire("GET", TimestampUri(conn, "/admin/v1/timestamp"),
                  {<<"accept", "application/json">>}, None, None)
  /\ UNCHANGED <<callers, conn, built, args, target, elapsed, self_response, calls, own, sends, response, parsed,
                 last_startup, count, sleeps>>

\* a poll whose answer goes through the status-code policy of _response
poll_answered_classified(c) ==
  /\ Polled(c)
  /\ \E r \in PollResponses :
       /\ wait_response' = [wait_response EXCEPT ![c] = r]
       /\ done' = [done EXCEPT ![c] = Confirms(r, last_startup[c])]
       /\ attempt' = [attempt EXCEPT ![c] = Answered(r)]
       /\ firstConfirm' = [firstConfirm EXCEPT ![c] =
            IF @ = 0 /\ r.status = 200 /\ r.text # last_startup[c]
              THEN polls[c] + 1 ELSE @]
       /\ IF Classify(r) = "pass"
            THEN /\ pc' = [pc EXCEPT ![c] = "sleep"]
                 /\ UNCHANGED outcome
            ELSE /\ pc' = [pc EXCEPT ![c] = "raised"]
                 /\ outcome' = [outcome EXCEPT ![c] =
                      Raised(Classify(r), Body("none", "-"))]

\* requests.get answered: response and done are assigned
poll_answered(c) ==
  /\ Polled(c)
  /\ \E r \in PollResponses :
       /\ wait_response' = [wait_response EXCEPT ![c] = r]
       /\ done' = [done EXCEPT ![c] = Confirms(r, last_startup[c])]
       /\ attempt' = [attempt EXCEPT ![c] = Answered(r)]
       /\ firstConfirm' = [firstConfirm EXCEPT ![c] =
            IF @ = 0 /\ r.status = 200 /\ r.text # last_startup[c]
              THEN polls[c] + 1 ELSE @]
  /\ pc' = [pc EXCEPT ![c] = "sleep"]
  /\ UNCHANGED outcome

\* requests.get raised: the matching except clause runs, or none matches
poll_failed(c) ==
  /\ Polled(c)
  /\ \E e \in PollErrors :
       /\ attempt' = [attempt EXCEPT ![c] = Failed(e)]
       /\ IF ~Handled(e)
            THEN /\ pc' = [pc EXCEPT ![c] = "raised"]
                 /\ outcome' = [outcome EXCEPT ![c] = Raised(e, Body("none", "-"))]
            ELSE IF HandlerReadsResponse(e) /\ wait_response[c] = Unbound
            THEN /\ pc' = [pc EXCEPT ![c] = "raised"]
                 /\ outcome' = [outcome EXCEPT ![c] =
                      Raised("UnboundLocalError", Body("none", "-"))]
            ELSE /\ pc' = [pc EXCEPT ![c] = "sleep"]
                 /\ UNCHANGED outcome
  /\ UNCHANGED <<wait_response, done, firstConfirm>>

\* a loop that leaves on success without the last sleep
sleep_unless_done(c) ==
  /\ c \in callers
  /\ pc[c] = "sleep"
  /\ IF done[c]
       THEN /\ pc' = [pc EXCEPT ![c] = "returned"]
            /\ outcome' = [outcome EXCEPT ![c] = Returned(response[c])]
            /\ UNCHANGED <<sleeps, elapsed, count>>
       ELSE /\ sleeps' = [sleeps EXCEPT ![c] = @ + 1]
            /\ elapsed' = [elapsed EXCEPT ![c] = @ + SleepUnits]
            /\ count' = [count EXCEPT ![c] = @ - 1]
            /\ IF Exhausted(count[c] - 1)
                 THEN /\ pc' = [pc EXCEPT ![c] = "raised"]
                      /\ outcome' = [outcome EXCEPT ![c] =
                           Raised("UnexpectedManagementAPIResponse",
                                  Body("literal", "Restart hung?"))]
                 ELSE /\ pc' = [pc EXCEPT ![c] = "poll"]
                      /\ UNCHANGED outcome
  /\ UNCHANGED <<callers, conn, built, args, target, self_response, wire, calls,
                 own, sends, response, parsed, last_startup, done,
                 wait_response, attempt, polls, firstConfirm>>

\* time.sleep(4); count -= 1; the budget test; the loop condition; the
\* return of wait_for_restart and of _response
sleep(c) ==
  /\ c \in callers
  /\ pc[c] = "sleep"
  /\ sleeps' = [sleeps EXCEPT ![c] = @ + 1]
  /\ elapsed' = [elapsed EXCEPT ![c] = @ + SleepUnits]
  /\ count' = [count EXCEPT ![c] = @ - 1]
  /\ IF Exhausted(count[c] - 1)
       THEN /\ pc' = [pc EXCEPT ![c] = "raised"]
            /\ outcome' = [outcome EXCEPT ![c] =
                 Raised("UnexpectedManagementAPIResponse", Body("literal", "Restart hung?"))]
       ELSE IF done[c]
       THEN /\ pc' = [pc EXCEPT ![c] = "returned"]
            /\ outcome' = [outcome EXCEPT ![c] = Returned(response[c])]
       ELSE /\ pc' = [pc EXCEPT ![c] = "poll"]
            /\ UNCHANGED outcome
  /\ UNCHANGED <<callers, conn, built, args, target, self_response, wire, calls, own, sends, response,
                 parsed, last_startup, done, wait_response, attempt, polls,
                 firstConfirm>>

\* `return self._response()`: the verb gives its result or its exception
\* to the caller and its frame is gone
verb_returns(c) ==
  /\ c \in callers
  /\ pc[c] \in {"returned", "raised"}
  /\ pc' = [pc EXCEPT ![c] = "idle"]
  /\ outcome' = [outcome EXCEPT ![c] = NoOutcome]
  /\ own' = [own EXCEPT ![c] = NoResponse]
  /\ args' = [args EXCEPT ![c] = NoArgs]
  /\ target' = [target EXCEPT ![c] = <<>>]
  /\ response' = [response EXCEPT ![c] = NoResponse]
  /\ parsed' = [parsed EXCEPT ![c] = FALSE]
  /\ last_startup' = [last_startup EXCEPT ![c] = "-"]
  /\ count' = [count EXCEPT ![c] = 0]
  /\ done' = [done EXCEPT ![c] = FALSE]
  /\ wait_response' = [wait_response EXCEPT ![c] = Unbound]
  /\ attempt' = [attempt EXCEPT ![c] = NoAttempt]
  /\ polls' = [polls EXCEPT ![c] = 0]
  /\ sleeps' = [sleeps EXCEPT ![c] = 0]
  /\ firstConfirm' = [firstConfirm EXCEPT ![c] = 0]
  /\ elapsed' = [elapsed EXCEPT ![c] = 0]
  /\ wire' = IF \E d \in callers \ {c} : pc[d] \notin {"idle", "returned", "raised"}
              THEN wire ELSE Idle
  /\ UNCHANGED <<callers, conn, built, self_response, calls, sends>>

\* -------------------------------------------------------------------- uri
UriFields == {"protocol", "host", "port", "root", "version"}

\* the keyword sets a call overrides: none, one field, or all of them
OverrideSets == {S \in SUBSET UriFields : Cardinality(S) \in {0, 1, 5}}

Override(S, f, v) == IF f \in S THEN Some(v) ELSE None

ParamStrings == {"format=json", "view=default"}

ParamLists == UNION {[1..n -> ParamStrings] : n \in 0..MaxParams}

UriCalls ==
  {UriArgs(relation, name, Override(S, "protocol", "https"),
           Override(S, "host", "elsewhere"), Override(S, "port", 8003),
           Override(S, "root", "altroot"), Override(S, "version", "v1"),
           properties, parameters) :
     relation \in {"databases", "hosts"},
     name \in {None, Some("db1")},
     S \in OverrideSets,
     properties \in {None, Some("/properties"), Some("/config")},
     parameters \in {None} \cup {Some(ps) : ps \in ParamLists}}

\* Connection.uri: reads the stored attributes, returns the string
uri ==
  /\ \E a \in UriCalls : built' = [args |-> a, uri |-> Uri(conn, a)]
  /\ UNCHANGED <<callers, conn, args, target, elapsed, self_response, wire, pc, calls,
                 own, sends, response, parsed, last_startup, count, done,
                 wait_response, attempt, polls, sleeps, firstConfirm, outcome>>

\* ---------------------------------------------------------- specification
Next ==
  \E c \in AllCallers :
    \/ head(c)
    \/ get(c)
    \/ post(c)
    \/ put(c)
    \/ delete(c)
    \/ requests_answered(c)
    \/ requests_raised(c)
    \/ _response(c)
    \/ poll_answered(c)
    \/ poll_failed(c)
    \/ sleep(c)
    \/ verb_returns(c)

Spec == Init /\ [][Next]_vars

SpecConc == InitConc /\ [][Next]_vars

\* the URI builder on its own: any sequence of uri() calls
NextUri == uri

SpecUri == Init /\ [][NextUri]_vars

\* the steps of a dispatch operation once its request is out
Progress(c) ==
  \/ requests_answered(c)
  \/ requests_raised(c)
  \/ _response(c)
  \/ poll_answered(c)
  \/ poll_failed(c)
  \/ sleep(c)

\* every started dispatch operation keeps running: requests calls answer
\* or raise, time.sleep returns
Fairness == \A c \in AllCallers : WF_vars(Progress(c))

InitFair == InitWith({"a"}, DefaultConnection)

SpecFair == InitFair /\ [][Next]_vars /\ Fairness

TypeOK ==
  /\ callers \subseteq AllCallers
  /\ \A c \in AllCallers :
       /\ pc[c] \in {"idle", "requested", "sent", "poll", "sleep", "returned", "raised"}
       /\ calls[c] \in 0..MaxCalls
       /\ polls[c] \in 0..RetryBudget
       /\ sleeps[c] \in 0..RetryBudget
       /\ count[c] \in 0..RetryBudget
       /\ elapsed[c] \in 0..(RetryBudget * SleepUnits)

\* ------------------------------------------------------------------ claims
HungError == Raised("UnexpectedManagementAPIResponse", Body("literal", "Restart hung?"))

RestartImplied(r) == r.status = 202 /\ r.text.kind = "restart"

ConfirmingAnswer(a, last) ==
  a.kind = "response" /\ a.response.status = 200 /\ a.response.text # last

Transient == {"BadStatusLine", "ProtocolError", "ConnectionError"}

Classified(c) == pc[c] \in {"poll", "sleep", "returned", "raised"}

\* C1: a 202 response with a restart descriptor (last-startup T0) is
\* returned only when the latest liveness poll answered 200 with a body
\* other than T0; a poll whose body is T0, whose status is not 200 or that
\* failed leaves done false.
C1_ReturnedOnlyAfterConfirmation ==
  \A c \in AllCallers :
    /\ (outcome[c].kind = "returned" /\ RestartImplied(outcome[c].handle))
         => /\ polls[c] >= 1
            /\ ConfirmingAnswer(attempt[c], outcome[c].handle.text.value)
    /\ (pc[c] = "sleep" /\ ~ConfirmingAnswer(attempt[c], last_startup[c]))
         => ~done[c]

C1_Witness ==
  \E c \in AllCallers :
    /\ outcome[c].kind = "returned"
    /\ RestartImplied(outcome[c].handle)
    /\ polls[c] = 3

\* C2: "Restart hung?" is raised only when none of the 24 attempts was
\* answered 200 with a body other than the previous timestamp.
C2_HungOnlyWithoutConfirmation ==
  \A c \in AllCallers :
    outcome[c] = HungError => firstConfirm[c] = 0

\* C3: a BadStatusLine, ProtocolError or ConnectionError on a poll attempt
\* is absorbed: after it the only error that can leave the reconciler is
\* the exhausted budget, and the attempt is followed by its sleep.
C3_TransientAbsorbed ==
  \A c \in AllCallers :
    (attempt[c].kind = "error" /\ attempt[c].error \in Transient)
      => /\ pc[c] = "raised" => outcome[c] = HungError
         /\ pc[c] = "sleep" => sleeps[c] = polls[c] - 1

\* C4: after a 202 with a restart descriptor and 24 attempts of which none
\* confirmed, the call has raised UnexpectedManagementAPIResponse("Restart
\* hung?"), returned no handle and sent its request once; no 25th poll is
\* ever issued.
C4_HungAfterExactly24 ==
  \A c \in AllCallers :
    /\ polls[c] <= RetryBudget
    /\ pc[c] = "poll" => polls[c] < RetryBudget
    /\ (RestartImplied(own[c]) /\ sleeps[c] = RetryBudget /\ firstConfirm[c] = 0)
         => /\ pc[c] = "raised"
            /\ outcome[c] = HungError
            /\ polls[c] = RetryBudget
            /\ sends[c] = 1
    /\ (outcome[c] = HungError)
         => polls[c] = RetryBudget /\ sleeps[c] = RetryBudget

C4_Witness ==
  \E c \in AllCallers :
    /\ outcome[c] = HungError
    /\ firstConfirm[c] = 0
    /\ attempt[c].kind = "response"
    /\ polls[c] = RetryBudget

\* C5: when the wait ends in a return, the polls made and the sleeps made
\* both equal the index of the first answer with status 200 and a body
\* other than T0.
C5_PollsAndSleepsEqualFirstConfirm ==
  \A c \in AllCallers :
    (outcome[c].kind = "returned" /\ RestartImplied(response[c]))
      => /\ firstConfirm[c] >= 1
         /\ polls[c] = firstConfirm[c]
         /\ sleeps[c] = firstConfirm[c]

C5_Witness ==
  \E c \in AllCallers :
    /\ outcome[c].kind = "returned"
    /\ RestartImplied(response[c])
    /\ firstConfirm[c] = 3
    /\ sleeps[c] = 3

\* C6 as stated: every response with a status in [200,300) is returned
\* unmodified without any liveness poll or sleep.
C6_Every2xxReturnedWithoutWait ==
  \A c \in AllCallers :
    (Classified(c) /\ response[c].status \in 200..299)
      => /\ outcome[c] = Returned(response[c])
         /\ polls[c] = 0
         /\ sleeps[c] = 0

\* C6 amended: every response with a status in [200,300) other than 202,
\* and every 202 whose body is a JSON object without a restart descriptor,
\* is returned unmodified without any liveness poll or sleep.
C6_2xxReturnedWithoutWait ==
  \A c \in AllCallers :
    (/\ Classified(c)
     /\ response[c].status \in 200..299
     /\ (response[c].status # 202 \/ response[c].text.kind = "norestart"))
      => /\ outcome[c] = Returned(response[c])
         /\ polls[c] = 0
         /\ sleeps[c] = 0

C6_Witness ==
  \E c \in AllCallers :
    /\ response[c].status = 299
    /\ outcome[c] = Returned(response[c])

\* C7: a 202 whose body is a JSON object without the "restart" key never
\* starts the reconciler: no poll, no sleep, and the handle is returned.
C7_NoRestartNoWait ==
  \A c \in AllCallers :
    (Classified(c) /\ own[c].status = 202 /\ own[c].text.kind = "norestart")
      => /\ outcome[c] = Returned(own[c])
         /\ parsed[c]
         /\ polls[c] = 0
         /\ sleeps[c] = 0

C7_Witness ==
  \E c \in AllCallers :
    /\ own[c] = Handle(202, Body("norestart", "-"))
    /\ outcome[c] = Returned(own[c])

\* C8: a 401 raises UnauthorizedAPIRequest and any other status >= 300
\* except 404 raises UnexpectedManagementAPIResponse, both carrying the
\* body text; no handle is returned, the request went out once and the
\* reconciler did not run.
C8_ErrorStatusesRaise ==
  \A c \in AllCallers :
    (Classified(c) /\ own[c].status >= 300 /\ own[c].status # 404)
      => /\ pc[c] = "raised"
         /\ outcome[c] =
              Raised(IF own[c].status = 401 THEN "UnauthorizedAPIRequest"
                       ELSE "UnexpectedManagementAPIResponse", own[c].text)
         /\ sends[c] = 1
         /\ polls[c] = 0
         /\ sleeps[c] = 0

C8_Witness ==
  \E c \in AllCallers :
    /\ own[c].status = 401
    /\ outcome[c] = Raised("UnauthorizedAPIRequest", Body("notjson", "-"))

\* C9: a 404 is returned unmodified: no error, no json.loads of the body,
\* no poll and no sleep.
C9_NotFoundReturned ==
  \A c \in AllCallers :
    (Classified(c) /\ own[c].status = 404)
      => /\ outcome[c] = Returned(own[c])
         /\ ~parsed[c]
         /\ polls[c] = 0
         /\ sleeps[c] = 0

C9_Witness ==
  \E c \in AllCallers :
    /\ own[c] = Handle(404, Body("notjson", "-"))
    /\ outcome[c] = Returned(own[c])

\* C10: in every interleaving, what _response of a caller inspects (and so
\* the caller's outcome) is the response to that caller's own request.
C10_OutcomeFromOwnResponse ==
  \A c \in AllCallers :
    Classified(c) /\ own[c] # NoResponse => response[c] = own[c]

\* C11: an invocation puts its request on the network once, whatever its
\* outcome: the count is 1 from the request on, it changes only when a new
\* invocation starts, and a transport error ends the invocation with that
\* error, no response stored and no poll made.
C11_RequestSentOnce ==
  /\ [](\A c \in AllCallers :
         /\ pc[c] # "idle" => sends[c] = 1
         /\ (pc[c] = "raised" /\ outcome[c].error \in TransportErrors /\ polls[c] = 0)
              => own[c] = NoResponse /\ sends[c] = 1)
  /\ [][\A c \in AllCallers :
          sends'[c] # sends[c] => calls'[c] = calls[c] + 1]_vars

C11_Witness ==
  \E c \in AllCallers :
    /\ pc[c] = "raised"
    /\ outcome[c] = Raised("ConnectionError", Body("none", "-"))
    /\ polls[c] = 0
    /\ sends[c] = 1

UriBuilt == built # NoUri

Interleaved(ps) ==
  [i \in 1..(2 * Len(ps) - 1) |-> IF i % 2 = 1 THEN ps[(i + 1) \div 2] ELSE "&"]

\* C12: the string uri() returns is scheme://host:port/root/version/relation,
\* then /name when a name is given, then the properties suffix when a name
\* is given and the suffix is not None, then, when parameters is not None,
\* one ? and the parameters in their order separated by &.
C12_UriFormat ==
  UriBuilt =>
    LET a == built.args
        u == built.uri
        nameLen == IF a.name = None THEN 0
                   ELSE IF a.properties = None THEN 2 ELSE 3
        tail == SubSeq(u, 12 + nameLen, Len(u))
    IN /\ Len(u) >= 11
       /\ <<u[2], u[4], u[6], u[8], u[10], u[11]>> = <<"://", ":", "/", "/", "/", a.relation>>
       /\ \A i \in {1, 3, 5, 7, 9} : u[i] \notin {"/", "?", "&", "://", ":"}
       /\ SubSeq(u, 12, 11 + nameLen) =
            (IF a.name = None THEN <<>>
             ELSE IF a.properties = None THEN <<"/", a.name[1]>>
             ELSE <<"/", a.name[1], a.properties[1]>>)
       /\ IF a.parameters = None THEN tail = <<>>
          ELSE tail = <<"?">> \o Interleaved(a.parameters[1])

C12_Witness ==
  /\ UriBuilt
  /\ built.args.name = None
  /\ built.args.properties = Some("/properties")
  /\ built.args.parameters = Some(<<"format=json", "format=json">>)
  /\ Len(built.uri) = 15

\* C13: each of scheme, host, port, root and version of the returned URI
\* is the per-call override when one is given and the stored attribute
\* otherwise (the management port for the port), and uri() leaves the
\* stored attributes as they were.
C13_OverridesPerField ==
  /\ [](UriBuilt =>
         LET a == built.args
             u == built.uri
         IN /\ u[1] = (IF a.protocol = None THEN conn.protocol ELSE a.protocol[1])
            /\ u[3] = (IF a.host = None THEN conn.host ELSE a.host[1])
            /\ u[5] = (IF a.port = None THEN ToString(conn.management_port)
                                        ELSE ToString(a.port[1]))
            /\ u[7] = (IF a.root = None THEN conn.root ELSE a.root[1])
            /\ u[9] = (IF a.version = None THEN conn.version ELSE a.version[1]))
  /\ [][conn' = conn]_vars

C13_Witness ==
  /\ UriBuilt
  /\ built.args.host = Some("elsewhere")
  /\ built.args.port = None
  /\ built.uri[3] = "elsewhere"
  /\ built.uri[5] = "9002"

\* C14: every answered or absorbed poll attempt is followed by one sleep of
\* 4 units before the next poll, before the budget test raises and before
\* the wait returns: polls and sleeps are level whenever a poll is about to
\* start or the wait has ended, and one apart in between.
C14_SleepAfterEveryAttempt ==
  \A c \in AllCallers :
    /\ elapsed[c] = 4 * sleeps[c]
    /\ pc[c] = "poll" => sleeps[c] = polls[c]
    /\ pc[c] = "sleep" => sleeps[c] = polls[c] - 1
    /\ (outcome[c].kind = "returned" \/ outcome[c] = HungError) => sleeps[c] = polls[c]

C14_Witness ==
  \E c \in AllCallers :
    /\ outcome[c].kind = "returned"
    /\ attempt[c].kind = "response"
    /\ polls[c] = 2
    /\ elapsed[c] = 8

InWait(c) == pc[c] \in {"poll", "sleep"}

\* C15: a restart wait never makes more than 24 polls or 24 sleeps, never
\* sleeps more than 96 time units, and always ends: in a return or in a
\* raised error.
C15_WaitTerminates ==
  /\ [](\A c \in AllCallers :
         polls[c] <= 24 /\ sleeps[c] <= 24 /\ elapsed[c] <= 96)
  /\ \A c \in AllCallers : InWait(c) ~> pc[c] \in {"returned", "raised"}

C15_Witness ==
  \E c \in AllCallers :
    /\ pc[c] = "raised"
    /\ polls[c] = 24
    /\ elapsed[c] = 96

\* C16 as stated: a poll failure other than BadStatusLine, ProtocolError
\* and ConnectionError ends the call at that attempt.
C16_OutsideTransientFatal ==
  \A c \in AllCallers :
    (attempt[c].kind = "error" /\ attempt[c].error \notin Transient)
      => pc[c] = "raised" /\ sleeps[c] = polls[c] - 1

\* C16 amended: a poll failure other than TypeError, BadStatusLine,
\* ProtocolError and ConnectionError leaves the call at that attempt with
\* that error: no sleep, no further poll, no handle.
C16_UncaughtFatal ==
  \A c \in AllCallers :
    (/\ attempt[c].kind = "error"
     /\ attempt[c].error \notin {"TypeError", "BadStatusLine", "ProtocolError", "ConnectionError"})
      => /\ pc[c] = "raised"
         /\ outcome[c] = Raised(attempt[c].error, Body("none", "-"))
         /\ sleeps[c] = polls[c] - 1

C16_Witness ==
  \E c \in AllCallers :
    /\ attempt[c] = Failed("Timeout")
    /\ pc[c] = "raised"
    /\ polls[c] = 2

\* C17: every liveness poll goes to scheme://host:8001/admin/v1/timestamp of
\* the stored scheme and host, whatever the management port, root and
\* version and whatever URI the triggering request went to.
C17_PollTarget ==
  \A c \in AllCallers :
    pc[c] = "sleep" =>
      /\ wire.verb = "GET"
      /\ wire.to = <<conn.protocol, "://", conn.host, ":8001", "/admin/v1/timestamp">>

C17_Witness ==
  \E c \in AllCallers :
    /\ pc[c] = "sleep"
    /\ polls[c] = 2
    /\ conn.management_port = 9002
    /\ target[c][3] = "elsewhere"
    /\ wire.to[3] = "db.example"

\* C18: post, put and delete send a payload as JSON under the content type
\* application/json and as the raw body under any other content type, send
\* no body without a payload, and send if-match exactly when an etag is
\* given.
C18_PayloadEncoding ==
  \A c \in AllCallers :
    (pc[c] \in {"requested", "sent"} /\ wire.verb \in {"POST", "PUT", "DELETE"})
      => /\ args[c].payload = None => wire.json = None /\ wire.data = None
         /\ (args[c].payload # None /\ args[c].content_type = "application/json")
              => wire.json = args[c].payload /\ wire.data = None
         /\ (args[c].payload # None /\ args[c].content_type # "application/json")
              => wire.data = args[c].payload /\ wire.json = None
         /\ (args[c].etag # None) <=> (\E h \in wire.headers : h[1] = "if-match")

\* C19: the Connection is as __init__ left it after any sequence of calls:
\* the constructor's attributes keep their values and no response is held.
C19_ConnectionImmutable ==
  /\ conn \in Connections
  /\ self_response = NoResponse

\* C20: a liveness poll answered with a status other than 200 raises
\* nothing at that attempt, leaves done false and is followed by its sleep;
\* the only error such answers lead to is "Restart hung?" after 24 polls.
C20_PollsNotClassified ==
  \A c \in AllCallers :
    (attempt[c].kind = "response" /\ attempt[c].response.status # 200)
      => /\ pc[c] \in {"sleep", "poll", "raised"}
         /\ pc[c] = "sleep" => ~done[c] /\ outcome[c] = NoOutcome
         /\ pc[c] = "raised" => outcome[c] = HungError /\ polls[c] = 24

C20_Witness ==
  \E c \in AllCallers :
    /\ attempt[c] = Answered(Handle(401, "T1"))
    /\ outcome[c] = HungError
    /\ firstConfirm[c] = 0
====
